---- MODULE Spec2Model ----
(***************************************************************************)
(* A model of wikidump's wikitext extractors:                             *)
(*   - sections()       src/wikidump/extractors/misc.py                   *)
(*   - wrap_timeout()   src/wikidump/timeout.py                           *)
(*   - wikilinks()      src/wikidump/extractors/misc.py                   *)
(*   - redirects()      src/wikidump/extractors/redirect.py               *)
(*   - the processors   src/wikidump/processors/redirect_extractor.py,    *)
(*                      src/wikidump/processors/revisionlist_extractor.py *)
(* Strings are sequences of one-character strings.  Offsets are Python's, *)
(* counted from 0; At(s, i) is s[i].                                      *)
(***************************************************************************)
EXTENDS Integers, Sequences, FiniteSets, TLC

\* ------------------------------------------------------------------ bounds

\* Longest source over {"=", "a", "\n"} given to sections().
MaxLen == 7

\* Longest source over {"=", "a", "\n", " "} given to sections().
MaxLenSp == 4

\* Most wrap_timeout calls one caller makes one after the other.
MaxCalls == 2

\* Largest timeout, in ticks, handed to wrap_timeout by the direct caller.
MaxTimeout == 2

\* Longest running time, in ticks, of a guarded operation under the direct caller.
MaxOpTime == 3

\* Longest text between the brackets of a source given to wikilinks().
MaxBody == 3

\* Longest running time, in ticks, of an operation wikilinks() guards.
MaxRegexTime == 6

\* Most runs of wikilinks() a caller makes one after the other.
MaxRuns == 2

\* Section objects: the largest level, the longest name and body.
MaxLevel == 2

MaxText == 2

\* Accesses of full_body on one Section.
MaxReads == 3

\* Most pages in a dump given to a processor.
MaxPages == 2

\* Most revisions of a page of namespace 0.
MaxRevs == 3

\* Latest timestamp of a revision; the earliest is 1.
MaxStamp == 2

\* Most revisions of a page outside namespace 0.
MaxSkippedRevs == 1

\* ----------------------------------------------------------------- strings

NL == "\n"

Min(a, b) == IF a < b THEN a ELSE b

Max(a, b) == IF a > b THEN a ELSE b

At(s, i) == s[i + 1]

\* Python's \s on the characters of the model.
IsSpace(c) == c \in {" ", NL}

Strs(chars, n) == UNION {[1..k -> chars] : k \in 0..n}

\* Python's s[b:e]: a negative index counts from the end, both are clamped.
SliceIdx(i, n) == IF i < 0 THEN Max(i + n, 0) ELSE Min(i, n)

Slice(s, b, e) ==
    LET bb == SliceIdx(b, Len(s))
        ee == SliceIdx(e, Len(s))
    IN  IF bb >= ee THEN <<>> ELSE SubSeq(s, bb + 1, ee)

\* s without its leading and trailing whitespace.
Trim(s) ==
    LET ks == {k \in 1..Len(s) : ~IsSpace(s[k])}
    IN  IF ks = {} THEN <<>>
        ELSE SubSeq(s, CHOOSE a \in ks : \A b \in ks : a <= b,
                       CHOOSE a \in ks : \A b \in ks : b <= a)

\* The first offset of character c in s; -1: none.
IndexOf(s, c) ==
    LET ks == {k \in 0..(Len(s) - 1) : At(s, k) = c}
    IN  IF ks = {} THEN -1 ELSE CHOOSE a \in ks : \A b \in ks : a <= b

\* ------------------------------------------------------- section_header_re

NoMatch == [start |-> -1, end |-> -1, level |-> 0, name |-> <<>>]

\* (?P<equals>=+), greedy: the longest run of "=" at offset i.
EqualsRun(s, i) ==
    LET ns == {n \in 0..(Len(s) - i) : \A j \in i..(i + n - 1) : At(s, j) = "="}
    IN  CHOOSE n \in ns : \A m \in ns : m <= n

\* \s*$ from offset p, greedy \s* backtracking until $ matches (MULTILINE: at
\* the end of the text or before a newline).  -1: no match.
HeaderEnd(s, p) ==
    LET ends == {e \in p..Len(s) :
                    /\ \A j \in p..(e - 1) : IsSpace(At(s, j))
                    /\ (e = Len(s) \/ At(s, e) = NL)}
    IN  IF ends = {} THEN -1 ELSE CHOOSE e \in ends : \A f \in ends : f <= e

\* The header at offset i with n equals and a name of q characters:
\* (?P<section_name>.+?)(?P=equals)\s*$ after n equals.
HeaderFits(s, i, n, q) ==
    /\ i + 2 * n + q <= Len(s)
    /\ \A j \in (i + n)..(i + n + q - 1) : At(s, j) # NL
    /\ \A j \in (i + n + q)..(i + 2 * n + q - 1) : At(s, j) = "="
    /\ HeaderEnd(s, i + 2 * n + q) # -1

\* section_header_re matched at offset i: ^ (MULTILINE), the equals greedy,
\* the name non-greedy, the first alternative that fits in backtracking order.
HeaderAt(s, i) ==
    LET bol == i = 0 \/ At(s, i - 1) = NL
        ns  == {n \in 1..EqualsRun(s, i) :
                   \E q \in 1..Len(s) : HeaderFits(s, i, n, q)}
    IN  IF ~bol \/ ns = {} THEN NoMatch
        ELSE LET n  == CHOOSE x \in ns : \A y \in ns : y <= x
                 qs == {q \in 1..Len(s) : HeaderFits(s, i, n, q)}
                 q  == CHOOSE x \in qs : \A y \in qs : x <= y
             IN  [start |-> i,
                  end   |-> HeaderEnd(s, i + 2 * n + q),
                  level |-> n,
                  name  |-> Slice(s, i + n, i + n + q)]

\* section_header_re.finditer(source) from offset pos: the leftmost match,
\* then the matches after its end.
RECURSIVE HeadersFrom(_, _)
HeadersFrom(s, pos) ==
    LET starts == {i \in pos..(Len(s) - 1) : HeaderAt(s, i) # NoMatch}
    IN  IF starts = {} THEN <<>>
        ELSE LET i == CHOOSE x \in starts : \A y \in starts : x <= y
                 m == HeaderAt(s, i)
             IN  <<m>> \o HeadersFrom(s, Max(m.end, i + 1))

section_header_matches(s) == HeadersFrom(s, 0)

\* ------------------------------------------------------ wikilink_simple_re

HasAt(s, i, c) == i >= 0 /\ i < Len(s) /\ At(s, i) = c

NoSimple == [start |-> -1, end |-> -1]

\* [^\n\]\[] of wikilink_simple_re.
IsSimpleChar(c) == c \notin {NL, "]", "["}

\* wikilink_simple_re matched at offset i: [[, one or more characters that
\* are no bracket and no newline (non-greedy), ]].
SimpleAt(s, i) ==
    LET qs == {q \in 1..Len(s) :
                  /\ HasAt(s, i, "[") /\ HasAt(s, i + 1, "[")
                  /\ \A j \in (i + 2)..(i + 1 + q) :
                        j < Len(s) /\ IsSimpleChar(At(s, j))
                  /\ HasAt(s, i + 2 + q, "]") /\ HasAt(s, i + 3 + q, "]")}
    IN  IF qs = {} THEN NoSimple
        ELSE [start |-> i,
              end   |-> i + 4 + (CHOOSE q \in qs : \A r \in qs : q <= r)]

\* wikilink_simple_re.finditer(source) from offset pos.
RECURSIVE SimplesFrom(_, _)
SimplesFrom(s, pos) ==
    LET starts == {i \in pos..(Len(s) - 1) : SimpleAt(s, i) # NoSimple}
    IN  IF starts = {} THEN <<>>
        ELSE LET i == CHOOSE x \in starts : \A y \in starts : x <= y
                 m == SimpleAt(s, i)
             IN  <<m>> \o SimplesFrom(s, m.end)

wikilink_simple_matches(s) == SimplesFrom(s, 0)

\* ------------------------------------------------- space_re, space_rtl_re

\* space_re.search(s).start(): the first whitespace of s; -1: none.
space_search(s) ==
    LET ps == {i \in 0..(Len(s) - 1) : IsSpace(At(s, i))}
    IN  IF ps = {} THEN -1 ELSE CHOOSE i \in ps : \A j \in ps : i <= j

\* space_rtl_re.search(s).start(): (?r) searches from the right, the last
\* whitespace of s; -1: none.
space_rtl_search(s) ==
    LET ps == {i \in 0..(Len(s) - 1) : IsSpace(At(s, i))}
    IN  IF ps = {} THEN -1 ELSE CHOOSE i \in ps : \A j \in ps : j <= i

\* ------------------------------------------------------------- wikilink_re

\* {0,256} of the link group.
LinkMax == 256

\* [^\n\|\]\[\<\>\{\}] of the link group.
IsLinkChar(c) == c \notin {NL, "|", "]", "[", "<", ">", "{", "}"}

NoLink == [start |-> -1, end |-> -1, total_start |-> -1, total_end |-> -1,
           wikilink_start |-> -1, wikilink_end |-> -1,
           link |-> <<>>, anchor |-> <<>>, has_anchor |-> FALSE]

\* (?P<anchor>[^\[]*?)\]\] from offset a: the lengths the anchor can take.
AnchorLens(s, a) ==
    {j \in 0..Len(s) :
        /\ \A k \in a..(a + j - 1) : k < Len(s) /\ At(s, k) # "["
        /\ HasAt(s, a + j, "]") /\ HasAt(s, a + j + 1, "]")}

\* [[ at offset w, a link of n characters, then |anchor]] or ]].
LinkFits(s, w, n) ==
    /\ HasAt(s, w, "[") /\ HasAt(s, w + 1, "[")
    /\ \A k \in (w + 2)..(w + 1 + n) : k < Len(s) /\ IsLinkChar(At(s, k))
    /\ \/ HasAt(s, w + 2 + n, "|") /\ AnchorLens(s, w + 3 + n) # {}
       \/ HasAt(s, w + 2 + n, "]") /\ HasAt(s, w + 3 + n, "]")

\* The group <wikilink> matched at offset w: the link greedy, the anchor
\* group tried before its absence, the anchor non-greedy.
WikilinkGroupAt(s, w) ==
    LET ns == {n \in 0..Min(LinkMax, Len(s)) : LinkFits(s, w, n)}
    IN  IF ns = {} THEN NoLink
        ELSE LET n    == CHOOSE x \in ns : \A y \in ns : y <= x
                 pipe == HasAt(s, w + 2 + n, "|") /\ AnchorLens(s, w + 3 + n) # {}
                 j    == IF pipe
                         THEN CHOOSE x \in AnchorLens(s, w + 3 + n) :
                                 \A y \in AnchorLens(s, w + 3 + n) : x <= y
                         ELSE 0
             IN  [NoLink EXCEPT
                    !.wikilink_start = w,
                    !.wikilink_end = IF pipe THEN w + 5 + n + j ELSE w + 4 + n,
                    !.link = Slice(s, w + 2, w + 2 + n),
                    !.anchor = IF pipe THEN Slice(s, w + 3 + n, w + 3 + n + j)
                               ELSE <<>>,
                    !.has_anchor = pipe]

\* \S* from offset p, greedy: the offset after the run.
NonSpaceRunEnd(s, p) ==
    LET es == {e \in p..Len(s) : \A j \in p..(e - 1) : ~IsSpace(At(s, j))}
    IN  CHOOSE e \in es : \A f \in es : f <= e

\* The group <total> matched at offset t: \S*? non-greedy, <wikilink>, \S*.
TotalAt(s, t) ==
    LET ks == {k \in 0..(Len(s) - t) :
                  /\ \A j \in t..(t + k - 1) : ~IsSpace(At(s, j))
                  /\ WikilinkGroupAt(s, t + k) # NoLink}
    IN  IF t > Len(s) \/ ks = {} THEN NoLink
        ELSE LET k == CHOOSE x \in ks : \A y \in ks : x <= y
                 g == WikilinkGroupAt(s, t + k)
             IN  [g EXCEPT !.total_start = t,
                           !.total_end = NonSpaceRunEnd(s, g.wikilink_end)]

\* wikilink_re matched at offset p: \s? greedy, <total>, \s? greedy.
MatchAt(s, p) ==
    LET lead == p < Len(s) /\ IsSpace(At(s, p)) /\ TotalAt(s, p + 1) # NoLink
        g    == IF lead THEN TotalAt(s, p + 1) ELSE TotalAt(s, p)
    IN  IF g = NoLink THEN NoLink
        ELSE [g EXCEPT !.start = p,
                       !.end = IF g.total_end < Len(s) /\ IsSpace(At(s, g.total_end))
                               THEN g.total_end + 1 ELSE g.total_end]

\* wikilink_re.search(s): the match at the leftmost offset that has one.
wikilink_re_search(s) ==
    LET ps == {p \in 0..Len(s) : MatchAt(s, p) # NoLink}
    IN  IF ps = {} THEN NoLink
        ELSE MatchAt(s, CHOOSE p \in ps : \A q \in ps : p <= q)

\* ------------------------------------------------------------------- state

VARIABLES
    source,             \* the document text
    include_preamble,   \* sections(): the flag
    secPc,              \* sections(): "start", "loop", "done"
    hdrs,               \* sections(): the header matches not yet consumed
    secOut,             \* sections(): the CaptureResults yielded so far
    alarm,              \* ticks until SIGALRM is due; -1: no alarm pending
    sigHandler,         \* the SIGALRM disposition: "SIG_DFL" or "handler"
    wtPc,               \* wrap_timeout: "idle", "enter", "arm", "running",
                        \*   "disarm", "return", "returned", "raised"
    wtTimeout,          \* wrap_timeout: the timeout argument
    wtArmed,            \* wrap_timeout: line 22 of this call has run
    wtDepth,            \* number of wrap_timeout frames on the stack
    opLeft,             \* ticks the guarded operation still needs
    opFails,            \* the guarded operation ends by raising its own error
    opValue,            \* the value the guarded operation returns
    opDone,             \* func(*args, **kwargs) of line 26 has returned
    res,                \* wrap_timeout: the local res
    wtErr,              \* how the call ended: "none", "CallTimeout", "OpError"
    elapsed,            \* ticks since line 22 armed the alarm
    calls,              \* calls the direct caller has completed
    prevErr,            \* wtErr of the direct caller's previous call
    stray,              \* CallTimeout was raised outside any wrap_timeout call
    debug,              \* wikilinks(): the flag
    page_title,         \* wikilinks(): the argument
    wlPc,               \* wikilinks(): "idle", "guard", "limits", "loop",
                        \*   "debugger", "done", "raised"
    wlErr,              \* wikilinks(): the error that left it; "none"
    wlLine,             \* wikilinks(): the line that raised wlErr; 0
    simple_matches,     \* wikilinks(): wikilink_simple_matches not yet consumed
    sections_limits,    \* wikilinks(): the local of line 353
    last_section_seen,  \* wikilinks(): the local of line 360
    prevmatch_start,    \* wikilinks(): the local of line 361
    prevmatch_end,      \* wikilinks(): the local of line 362
    space_prev_pos,     \* wikilinks(): the local of lines 375 and 377; -1: unbound
    wlOut,              \* wikilinks(): the CaptureResults yielded so far
    runs,               \* runs of wikilinks() started
    language,           \* redirects(): the argument
    rdPc,               \* redirects(): "idle", "created", "yielded", "done",
                        \*   "raised"
    rdErr,              \* redirects(): the error that left it; "none"
    rdOut,              \* redirects(): the CaptureResults yielded so far
    self,               \* a Section: its name, level and body
    _full_body,         \* Section._full_body; <<>>: None, <<s>>: the string s
    fbReturned,         \* what the accesses of full_body returned, in order
    fbComputed,         \* times lines 42-51 of full_body have run
    processor,          \* the processor whose main runs; "none"
    dump,               \* main(): the pages the dump reader delivers
    argv,               \* the options as given on the command line
    args,               \* main(): the parsed options object
    mainPc,             \* main(): "idle", "pages", "revisions", "rows",
                        \*   "returned"
    dumpPos,            \* extract_pages(): pages of dump consumed
    pagePending,        \* extract_pages() is suspended at its yield
    mw_page,            \* main(): the page of the loop; 0: none
    revPos,             \* extract_revisions(): revisions of the page consumed
    revPending,         \* extract_revisions() is suspended at its yield
    sorted_revisions,   \* redirect_extractor: the list sorted() returned
    revIdx,             \* redirect_extractor: revisions of that list handled
    hasredirect_rev,    \* redirect_extractor: "None", "True" or "False"
    hasredirect_prevrev, \* redirect_extractor: "None", "True" or "False"
    page_revision_list, \* revisionlist_extractor: the local of line 205
    stats,              \* stats['performance']: the two counters
    rows                \* the rows written after the header row

secVars == <<source, include_preamble, secPc, hdrs, secOut>>

guardVars == <<alarm, sigHandler, wtPc, wtTimeout, wtArmed, wtDepth, opLeft,
               opFails, opValue, opDone, res, wtErr, elapsed>>

callerVars == <<calls, prevErr, stray>>

wlVars == <<debug, page_title, wlPc, wlErr, wlLine, simple_matches,
            sections_limits, last_section_seen, prevmatch_start, prevmatch_end,
            space_prev_pos, wlOut, runs>>

rdVars == <<language, rdPc, rdErr, rdOut>>

fbVars == <<self, _full_body, fbReturned, fbComputed>>

procVars == <<processor, dump, argv, args, mainPc, dumpPos, pagePending,
              mw_page, revPos, revPending, sorted_revisions, revIdx,
              hasredirect_rev, hasredirect_prevrev, page_revision_list, stats,
              rows>>

vars == <<secVars, guardVars, callerVars, wlVars, rdVars, fbVars, procVars>>

\* ------------------------------------------------------------ wrap_timeout

Values == {"r1", "r2"}

None == "None"

GuardIdle ==
    /\ alarm = -1
    /\ sigHandler = "SIG_DFL"
    /\ wtPc = "idle"
    /\ wtTimeout = 0
    /\ wtArmed = FALSE
    /\ wtDepth = 0
    /\ opLeft = 0
    /\ opFails = FALSE
    /\ opValue = None
    /\ opDone = FALSE
    /\ res = None
    /\ wtErr = "none"
    /\ elapsed = 0

CallerIdle ==
    /\ calls = 0
    /\ prevErr = "none"
    /\ stray = FALSE

WikilinksIdle ==
    /\ debug = FALSE
    /\ page_title = <<>>
    /\ wlPc = "idle"
    /\ wlErr = "none"
    /\ wlLine = 0
    /\ simple_matches = <<>>
    /\ sections_limits = <<>>
    /\ last_section_seen = 0
    /\ prevmatch_start = 0
    /\ prevmatch_end = 0
    /\ space_prev_pos = -1
    /\ wlOut = <<>>
    /\ runs = 0

RedirectsIdle ==
    /\ language = "en"
    /\ rdPc = "idle"
    /\ rdErr = "none"
    /\ rdOut = <<>>

FullBodyIdle ==
    /\ self = [name |-> <<>>, level |-> 0, body |-> <<>>]
    /\ _full_body = <<>>
    /\ fbReturned = <<>>
    /\ fbComputed = 0

NoArgs == [language |-> "en", only_last_revision |-> FALSE,
           ensure_sorted |-> FALSE, change_bytes |-> FALSE]

ProcessorsIdle ==
    /\ processor = "none"
    /\ dump = <<>>
    /\ argv = NoArgs
    /\ args = NoArgs
    /\ mainPc = "idle"
    /\ dumpPos = 0
    /\ pagePending = FALSE
    /\ mw_page = 0
    /\ revPos = 0
    /\ revPending = FALSE
    /\ sorted_revisions = <<>>
    /\ revIdx = 0
    /\ hasredirect_rev = "None"
    /\ hasredirect_prevrev = "None"
    /\ page_revision_list = <<>>
    /\ stats = [pages_analyzed |-> 0, revisions_analyzed |-> 0]
    /\ rows = <<>>

\* SIGALRM is due: Python runs handler() before the main thread's next step.
SignalDue == alarm = 0

\* The main thread is inside wrap_timeout's frame (or the frame of func).
InWrap == wtPc \in {"enter", "arm", "running", "disarm", "return"}

\* signal.alarm(timeout), line 22: one SIGALRM, timeout ticks from now.
alarm_armed(timeout) == timeout

\* An alarm that repeats (an interval timer) instead of the one-shot alarm.
alarm_repeats(timeout) == timeout

\* The alarm of line 22 once its SIGALRM has been delivered: none pending.
alarm_delivered(timeout) == -1

\* A guarded callable that itself runs a guarded evaluation.
func_guard_calls_nested(func) == 1

\* The wrap_timeout calls made by the callable wrap_timeout is given, while
\* that callable runs: the lambda of misc.py line 341 and wikilink_re.search
\* of line 394 make none.
func_guard_calls(func) == 0

\* wrap_timeout(func, timeout, args) is called: the frame is set up.
BeginCall(timeout, dur, fails, value) ==
    /\ wtPc' = "enter"
    /\ wtTimeout' = timeout
    /\ wtArmed' = FALSE
    /\ wtDepth' = wtDepth + 1
    /\ opLeft' = dur
    /\ opFails' = fails
    /\ opValue' = value
    /\ opDone' = FALSE
    /\ res' = None
    /\ wtErr' = "none"
    /\ elapsed' = 0
    /\ UNCHANGED <<alarm, sigHandler>>

\* Lines 15-21: the defaults of args and kwargs, signal.signal(SIGALRM, handler).
WrapEnter ==
    /\ wtPc = "enter"
    /\ ~SignalDue
    /\ sigHandler' = "handler"
    /\ wtPc' = "arm"
    /\ UNCHANGED <<alarm, wtTimeout, wtArmed, wtDepth, opLeft, opFails, opValue,
                   opDone, res, wtErr, elapsed>>
    /\ UNCHANGED <<secVars, callerVars, wlVars>>
    /\ UNCHANGED <<rdVars, fbVars, procVars>>

\* Line 22: signal.alarm(timeout) replaces any pending alarm; lines 24-26
\* start func.
WrapArm ==
    /\ wtPc = "arm"
    /\ ~SignalDue
    /\ alarm' = alarm_armed(wtTimeout)
    /\ wtArmed' = TRUE
    /\ elapsed' = 0
    /\ wtPc' = "running"
    /\ wtDepth' = wtDepth + func_guard_calls("func")
    /\ UNCHANGED <<sigHandler, wtTimeout, opLeft, opFails, opValue,
                   opDone, res, wtErr>>
    /\ UNCHANGED <<secVars, callerVars, wlVars>>
    /\ UNCHANGED <<rdVars, fbVars, procVars>>

\* Line 26: func returns and res is assigned.
OpFinish ==
    /\ wtPc = "running"
    /\ ~SignalDue
    /\ opLeft = 0
    /\ ~opFails
    /\ res' = opValue
    /\ opDone' = TRUE
    /\ wtPc' = "disarm"
    /\ UNCHANGED <<alarm, sigHandler, wtTimeout, wtArmed, wtDepth, opLeft,
                   opFails, opValue, wtErr, elapsed>>
    /\ UNCHANGED <<secVars, callerVars, wlVars>>
    /\ UNCHANGED <<rdVars, fbVars, procVars>>

\* Line 26: func raises an error of its own, which leaves wrap_timeout at
\* once: line 28 is not run.
OpRaise ==
    /\ wtPc = "running"
    /\ ~SignalDue
    /\ opLeft = 0
    /\ opFails
    /\ wtErr' = "OpError"
    /\ wtPc' = "raised"
    /\ wtDepth' = wtDepth - 1
    /\ UNCHANGED <<alarm, sigHandler, wtTimeout, wtArmed, opLeft, opFails,
                   opValue, opDone, res, elapsed>>
    /\ UNCHANGED <<secVars, callerVars, wlVars>>
    /\ UNCHANGED <<rdVars, fbVars, procVars>>

\* Line 28: signal.alarm(0) cancels the pending alarm.
WrapDisarm ==
    /\ wtPc = "disarm"
    /\ ~SignalDue
    /\ alarm' = -1
    /\ wtPc' = "return"
    /\ UNCHANGED <<sigHandler, wtTimeout, wtArmed, wtDepth, opLeft, opFails,
                   opValue, opDone, res, wtErr, elapsed>>
    /\ UNCHANGED <<secVars, callerVars, wlVars>>
    /\ UNCHANGED <<rdVars, fbVars, procVars>>

\* Line 30: return res.
WrapReturn ==
    /\ wtPc = "return"
    /\ ~SignalDue
    /\ wtPc' = "returned"
    /\ wtDepth' = wtDepth - 1
    /\ UNCHANGED <<alarm, sigHandler, wtTimeout, wtArmed, opLeft, opFails,
                   opValue, opDone, res, wtErr, elapsed>>
    /\ UNCHANGED <<secVars, callerVars, wlVars>>
    /\ UNCHANGED <<rdVars, fbVars, procVars>>

\* Lines 9-11: SIGALRM is delivered and handler() raises CallTimeout in the
\* frame the main thread is executing.  Inside wrap_timeout (func included) the
\* error leaves the call, whatever res holds; elsewhere it is raised in the
\* caller's own code.
AlarmFire ==
    /\ SignalDue
    /\ sigHandler = "handler"
    /\ alarm' = alarm_delivered(wtTimeout)
    /\ IF InWrap
       THEN /\ wtPc' = "raised"
            /\ wtErr' = "CallTimeout"
            /\ wtDepth' = wtDepth - 1
            /\ UNCHANGED stray
       ELSE /\ stray' = TRUE
            /\ UNCHANGED <<wtPc, wtErr, wtDepth>>
    /\ UNCHANGED <<sigHandler, wtTimeout, wtArmed, opLeft, opFails, opValue,
                   opDone, res, elapsed>>
    /\ UNCHANGED <<secVars, calls, prevErr, wlVars>>
    /\ UNCHANGED <<rdVars, fbVars, procVars>>

\* One tick of wall-clock time: a pending alarm comes closer, a running
\* operation progresses.  Time does not pass a due alarm undelivered.
Tick ==
    /\ ~SignalDue
    /\ alarm > 0 \/ (wtPc = "running" /\ opLeft > 0)
    /\ alarm' = IF alarm > 0 THEN alarm - 1 ELSE alarm
    /\ opLeft' = IF wtPc = "running" /\ opLeft > 0 THEN opLeft - 1 ELSE opLeft
    /\ elapsed' = IF wtArmed /\ InWrap THEN elapsed + 1 ELSE elapsed
    /\ UNCHANGED <<sigHandler, wtPc, wtTimeout, wtArmed, wtDepth, opFails,
                   opValue, opDone, res, wtErr>>
    /\ UNCHANGED <<secVars, callerVars, wlVars>>
    /\ UNCHANGED <<rdVars, fbVars, procVars>>

\* ---------------------------------------------- a caller of wrap_timeout

\* A caller calls wrap_timeout(func, timeout): func runs for dur ticks, then
\* returns value or raises.
DirectCall ==
    /\ wtPc = "idle"
    /\ ~SignalDue
    /\ calls < MaxCalls
    /\ \E timeout \in 1..MaxTimeout, dur \in 0..MaxOpTime,
          fails \in BOOLEAN, value \in Values :
          BeginCall(timeout, dur, fails, value)
    /\ UNCHANGED <<secVars, callerVars, wlVars>>
    /\ UNCHANGED <<rdVars, fbVars, procVars>>

\* The call is over: the caller has its result, or has caught its error.
DirectResume ==
    /\ wtPc \in {"returned", "raised"}
    /\ ~SignalDue
    /\ wtPc' = "idle"
    /\ calls' = calls + 1
    /\ prevErr' = wtErr
    /\ UNCHANGED <<alarm, sigHandler, wtTimeout, wtArmed, wtDepth, opLeft,
                   opFails, opValue, opDone, res, wtErr, elapsed>>
    /\ UNCHANGED <<secVars, stray, wlVars>>
    /\ UNCHANGED <<rdVars, fbVars, procVars>>

SectionsIdle ==
    /\ source = <<>>
    /\ include_preamble = FALSE
    /\ secPc = "done"
    /\ hdrs = <<>>
    /\ secOut = <<>>

InitTimeout ==
    /\ ProcessorsIdle
    /\ GuardIdle
    /\ CallerIdle
    /\ SectionsIdle
    /\ WikilinksIdle
    /\ RedirectsIdle
    /\ FullBodyIdle

NextTimeout ==
    \/ DirectCall
    \/ WrapEnter
    \/ WrapArm
    \/ OpFinish
    \/ OpRaise
    \/ WrapDisarm
    \/ WrapReturn
    \/ AlarmFire
    \/ Tick
    \/ DirectResume

SpecTimeout == InitTimeout /\ [][NextTimeout]_vars

\* ---------------------------------------------------------------- sections

\* body_end without the "body_end -= 1" of lines 111 and 128.
body_end_keeps_newline(s, rest) ==
    IF rest # <<>> THEN rest[1].start ELSE Len(s)

\* body_end of lines 109-113 and 126-130: one before the start of the next
\* header, or the length of the source when there is none.
body_end(s, rest) ==
    IF rest # <<>> THEN rest[1].start - 1 ELSE Len(s)

\* Lines 114-119: the preamble's CaptureResult.
PreambleResult(s, rest) ==
    [name  |-> <<>>,
     level |-> 0,
     body  |-> Slice(s, 0, body_end(s, rest)),
     begin |-> 0,
     end   |-> body_end(s, rest)]

\* Lines 122-138: the CaptureResult of header match m, rest the matches after it.
SectionResult(s, m, rest) ==
    [name  |-> m.name,
     level |-> m.level,
     body  |-> Slice(s, m.end + 1, body_end(s, rest)),
     begin |-> m.start,
     end   |-> body_end(s, rest)]

SectionSources ==
    Strs({"=", "a", NL}, MaxLen) \cup Strs({"=", "a", NL, " "}, MaxLenSp)

InitSections ==
    /\ ProcessorsIdle
    /\ GuardIdle
    /\ CallerIdle
    /\ WikilinksIdle
    /\ source \in SectionSources
    /\ include_preamble \in BOOLEAN
    /\ secPc = "start"
    /\ hdrs = section_header_matches(source)
    /\ secOut = <<>>
    /\ RedirectsIdle
    /\ FullBodyIdle

\* The first next() with include_preamble: lines 108-119.
YieldPreamble ==
    /\ secPc = "start"
    /\ include_preamble
    /\ secOut' = Append(secOut, PreambleResult(source, hdrs))
    /\ secPc' = "loop"
    /\ UNCHANGED <<source, include_preamble, hdrs>>
    /\ UNCHANGED <<guardVars, callerVars, wlVars>>
    /\ UNCHANGED <<rdVars, fbVars, procVars>>

\* One turn of the loop of lines 121-138.
YieldSection ==
    /\ secPc = "loop" \/ (secPc = "start" /\ ~include_preamble)
    /\ hdrs # <<>>
    /\ secOut' = Append(secOut, SectionResult(source, Head(hdrs), Tail(hdrs)))
    /\ hdrs' = Tail(hdrs)
    /\ secPc' = "loop"
    /\ UNCHANGED <<source, include_preamble>>
    /\ UNCHANGED <<guardVars, callerVars, wlVars>>
    /\ UNCHANGED <<rdVars, fbVars, procVars>>

\* The loop of line 121 finds no further header: the generator is exhausted.
SectionsStop ==
    /\ secPc = "loop" \/ (secPc = "start" /\ ~include_preamble)
    /\ hdrs = <<>>
    /\ secPc' = "done"
    /\ UNCHANGED <<source, include_preamble, hdrs, secOut>>
    /\ UNCHANGED <<guardVars, callerVars, wlVars>>
    /\ UNCHANGED <<rdVars, fbVars, procVars>>

NextSections == YieldPreamble \/ YieldSection \/ SectionsStop

SpecSections == InitSections /\ [][NextSections]_vars

\* --------------------------------------------------------------- wikilinks

\* REGEX_TIMEOUT of misc.py.
REGEX_TIMEOUT == 5

\* The names bound in the module misc.py: its imports (lines 2-13) and its
\* top-level definitions.  An except clause looks its class up here.
misc_globals ==
    {"functools", "regex", "signal", "itertools", "peekable", "Callable",
     "Iterable", "Iterator", "List", "TypeVar", "NamedTuple", "Optional",
     "arxiv", "doi", "isbn", "pubmed", "CaptureResult", "Span", "timeout",
     "empty_generator", "Section", "section_header_re", "templates_re",
     "_pattern_or", "references", "sections", "templates", "T", "Extractor",
     "pub_identifiers", "Wikilink", "REGEX_TIMEOUT", "wikilink_re",
     "wikilink_simple_re", "space_re", "space_rtl_re", "SectionLimits",
     "reverse_position", "wikilinks"}

\* The local revtext is bound: its only assignment, line 367, is a comment.
revtext_bound == FALSE

\* sections(source) run to its end: what the caller hands to wikilinks().
AllSections(s, preamble) ==
    LET hs == section_header_matches(s)
    IN  (IF preamble THEN <<PreambleResult(s, hs)>> ELSE <<>>)
        \o [i \in 1..Len(hs) |-> SectionResult(s, hs[i], SubSeq(hs, i + 1, Len(hs)))]

\* Lines 353-358: SectionLimits numbered from 1.
section_limits_of(secs) ==
    [i \in 1..Len(secs) |->
        [name |-> secs[i].name, level |-> secs[i].level, number |-> i,
         begin |-> secs[i].begin, end |-> secs[i].end]]

Prefixes == {<<>>, <<"a">>, <<" ">>}

Suffixes == {<<>>, <<"s">>, <<" ">>}

WikilinkSources ==
    {pre \o <<"[", "[">> \o body \o <<"]", "]">> \o post :
        pre \in Prefixes, body \in Strs({"a", " ", "#", "|"}, MaxBody),
        post \in Suffixes}

\* Documents with headers, with two links, and with a link the grammar
\* cannot match.
SectionedSources ==
    {<<"=", "a", "=", NL, "[", "[", "a", "]", "]">>,
     <<"=", "a", "=", NL, "=", "a", "=", NL, "[", "[", "a", "]", "]">>,
     <<"[", "[", "a", "]", "]", " ", "[", "[", "a", "]", "]">>,
     <<"[", "[", "<", "]", "]">>,
     <<"[", "[", "a", "<", "]", "]">>}

InitWikilinks ==
    /\ ProcessorsIdle
    /\ GuardIdle
    /\ CallerIdle
    /\ SectionsIdle
    /\ WikilinksIdle
    /\ RedirectsIdle
    /\ FullBodyIdle

\* wikilinks(page_title, source, sections, debug) is called and iterated:
\* line 322, then the guarded call of lines 340-344 or the plain one of
\* lines 349-351.
WlStart ==
    /\ wlPc = "idle"
    /\ wtPc = "idle"
    /\ ~SignalDue
    /\ runs < MaxRuns
    /\ \E src \in WikilinkSources \cup SectionedSources, dbg \in BOOLEAN :
          /\ source' = src
          /\ debug' = dbg
          /\ IF dbg
             THEN /\ \E dur \in 0..MaxRegexTime :
                        BeginCall(REGEX_TIMEOUT, dur, FALSE, "matches")
                  /\ simple_matches' = <<>>
                  /\ wlPc' = "guard"
             ELSE /\ simple_matches' = wikilink_simple_matches(src)
                  /\ wlPc' = "limits"
                  /\ UNCHANGED guardVars
    /\ page_title' = <<"T">>
    /\ wlErr' = "none"
    /\ wlLine' = 0
    /\ sections_limits' = <<>>
    /\ last_section_seen' = 0
    /\ prevmatch_start' = 0
    /\ prevmatch_end' = 0
    /\ space_prev_pos' = -1
    /\ wlOut' = <<>>
    /\ runs' = runs + 1
    /\ UNCHANGED <<include_preamble, secPc, hdrs, secOut, callerVars>>
    /\ UNCHANGED <<rdVars, fbVars, procVars>>

\* Line 340: wrap_timeout returned, wikilink_simple_matches is assigned.
WlGuardReturned ==
    /\ wlPc = "guard"
    /\ wtPc = "returned"
    /\ simple_matches' = wikilink_simple_matches(source)
    /\ wlPc' = "limits"
    /\ wtPc' = "idle"
    /\ UNCHANGED <<alarm, sigHandler, wtTimeout, wtArmed, wtDepth, opLeft,
                   opFails, opValue, opDone, res, wtErr, elapsed>>
    /\ UNCHANGED <<secVars, callerVars, debug, page_title, wlErr, wlLine,
                   sections_limits, last_section_seen, prevmatch_start,
                   prevmatch_end, space_prev_pos, wlOut, runs>>
    /\ UNCHANGED <<rdVars, fbVars, procVars>>

\* Lines 345-346: wrap_timeout raised inside the try.  The except clause
\* evaluates the name CallTimeout: unbound in misc.py it raises NameError;
\* were it bound, ipdb.set_trace() would stop the process in the debugger.
WlGuardRaised ==
    /\ wlPc = "guard"
    /\ wtPc = "raised"
    /\ IF "CallTimeout" \in misc_globals
       THEN /\ wlPc' = "debugger"
            /\ UNCHANGED <<wlErr, wlLine>>
       ELSE /\ wlPc' = "raised"
            /\ wlErr' = "NameError"
            /\ wlLine' = 345
    /\ wtPc' = "idle"
    /\ UNCHANGED <<alarm, sigHandler, wtTimeout, wtArmed, wtDepth, opLeft,
                   opFails, opValue, opDone, res, wtErr, elapsed>>
    /\ UNCHANGED <<secVars, callerVars, debug, page_title, simple_matches,
                   sections_limits, last_section_seen, prevmatch_start,
                   prevmatch_end, space_prev_pos, wlOut, runs>>
    /\ UNCHANGED <<rdVars, fbVars, procVars>>

\* Lines 353-362: sections_limits and the scan state.
WlLimits ==
    /\ wlPc = "limits"
    /\ sections_limits' = section_limits_of(AllSections(source, FALSE))
    /\ last_section_seen' = 0
    /\ prevmatch_start' = 0
    /\ prevmatch_end' = 0
    /\ wlPc' = "loop"
    /\ UNCHANGED <<secVars, guardVars, callerVars, debug, page_title, wlErr,
                   wlLine, simple_matches, space_prev_pos, wlOut, runs>>
    /\ UNCHANGED <<rdVars, fbVars, procVars>>

\* Line 363 finds no further candidate: line 495, the generator is exhausted.
WlExhausted ==
    /\ wlPc = "loop"
    /\ simple_matches = <<>>
    /\ wlPc' = "done"
    /\ UNCHANGED <<secVars, guardVars, callerVars, debug, page_title, wlErr,
                   wlLine, simple_matches, sections_limits, last_section_seen,
                   prevmatch_start, prevmatch_end, space_prev_pos, wlOut, runs>>
    /\ UNCHANGED <<rdVars, fbVars, procVars>>

\* Lines 363-373, a whitespace precedes the candidate: spacepos is assigned
\* and len(revtext) of line 373 reads the unbound local revtext.
WlRevtextRead ==
    /\ wlPc = "loop"
    /\ simple_matches # <<>>
    /\ space_rtl_search(Slice(source, prevmatch_start, Head(simple_matches).start)) # -1
    /\ ~revtext_bound
    /\ simple_matches' = Tail(simple_matches)
    /\ wlErr' = "UnboundLocalError"
    /\ wlLine' = 373
    /\ wlPc' = "raised"
    /\ UNCHANGED <<secVars, guardVars, callerVars, debug, page_title,
                   sections_limits, last_section_seen, prevmatch_start,
                   prevmatch_end, space_prev_pos, wlOut, runs>>
    /\ UNCHANGED <<rdVars, fbVars, procVars>>

\* Lines 363-378, no whitespace precedes the candidate: line 377 assigns
\* space_prev_pos and del revtext of line 378 deletes the unbound local.
WlRevtextDel ==
    /\ wlPc = "loop"
    /\ simple_matches # <<>>
    /\ space_rtl_search(Slice(source, prevmatch_start, Head(simple_matches).start)) = -1
    /\ ~revtext_bound
    /\ space_prev_pos' = Head(simple_matches).start
    /\ simple_matches' = Tail(simple_matches)
    /\ wlErr' = "UnboundLocalError"
    /\ wlLine' = 378
    /\ wlPc' = "raised"
    /\ UNCHANGED <<secVars, guardVars, callerVars, debug, page_title,
                   sections_limits, last_section_seen, prevmatch_start,
                   prevmatch_end, wlOut, runs>>
    /\ UNCHANGED <<rdVars, fbVars, procVars>>

\* The caller is done with the generator, exhausted or ended by an error, and
\* drops it: its frame and locals are gone.
WlClose ==
    /\ wlPc \in {"done", "raised"}
    /\ source' = <<>>
    /\ debug' = FALSE
    /\ page_title' = <<>>
    /\ wlPc' = "idle"
    /\ wlErr' = "none"
    /\ wlLine' = 0
    /\ simple_matches' = <<>>
    /\ sections_limits' = <<>>
    /\ last_section_seen' = 0
    /\ prevmatch_start' = 0
    /\ prevmatch_end' = 0
    /\ space_prev_pos' = -1
    /\ wlOut' = <<>>
    /\ UNCHANGED <<include_preamble, secPc, hdrs, secOut, guardVars,
                   callerVars, runs>>
    /\ UNCHANGED <<rdVars, fbVars, procVars>>

NextWikilinks ==
    \/ WlStart
    \/ WlClose
    \/ WrapEnter
    \/ WrapArm
    \/ OpFinish
    \/ WrapDisarm
    \/ WrapReturn
    \/ AlarmFire
    \/ Tick
    \/ WlGuardReturned
    \/ WlGuardRaised
    \/ WlLimits
    \/ WlExhausted
    \/ WlRevtextRead
    \/ WlRevtextDel

SpecWikilinks == InitWikilinks /\ [][NextWikilinks]_vars

\* ---------------------------------------------------------------- redirects

\* redirect_magicwords of redirect.py, lines 11-30: the languages whose words
\* are all ASCII (the tables of 'es' and 'ru' hold words that are not).
redirect_magicwords ==
    [
     de |-> <<<<"W", "E", "I", "T", "E", "R", "L", "E", "I", "T", "U", "N", "G">>,
              <<"R", "E", "D", "I", "R", "E", "C", "T">>>>,
     en |-> <<<<"R", "E", "D", "I", "R", "E", "C", "T">>>>,
     fr |-> <<<<"R", "E", "D", "I", "R", "E", "C", "T", "I", "O", "N">>,
              <<"R", "E", "D", "I", "R", "E", "C", "T">>>>,
     it |-> <<<<"R", "I", "N", "V", "I", "A">>,
              <<"R", "I", "N", "V", "I", "O">>,
              <<"R", "I", "M", "A", "N", "D", "O">>,
              <<"R", "E", "D", "I", "R", "E", "C", "T">>>>,
     nl |-> <<<<"D", "O", "O", "R", "V", "E", "R", "W", "I", "J", "Z", "I", "N", "G">>,
              <<"R", "E", "D", "I", "R", "E", "C", "T">>>>,
     pl |-> <<<<"P", "A", "T", "R", "Z">>,
              <<"P", "R", "Z", "E", "K", "I", "E", "R", "U", "J">>,
              <<"T", "A", "M">>,
              <<"R", "E", "D", "I", "R", "E", "C", "T">>>>,
     sv |-> <<<<"O", "M", "D", "I", "R", "I", "G", "E", "R", "I", "N", "G">>,
              <<"R", "E", "D", "I", "R", "E", "C", "T">>>>]

UpperCase == <<"A", "B", "C", "D", "E", "F", "G", "H", "I", "J", "K", "L", "M", "N", "O", "P", "Q", "R", "S", "T", "U", "V", "W", "X", "Y", "Z">>

LowerCase == <<"a", "b", "c", "d", "e", "f", "g", "h", "i", "j", "k", "l", "m", "n", "o", "p", "q", "r", "s", "t", "u", "v", "w", "x", "y", "z">>

\* The case folding of regex.IGNORECASE on the characters of the model.
Fold(c) ==
    IF \E i \in 1..Len(UpperCase) : UpperCase[i] = c
    THEN LowerCase[CHOOSE i \in 1..Len(UpperCase) : UpperCase[i] = c]
    ELSE c

\* The word w matches at offset p of s, letter case ignored.
WordAt(s, p, w) ==
    /\ p + Len(w) <= Len(s)
    /\ \A k \in 1..Len(w) : Fold(At(s, p + k - 1)) = Fold(w[k])

\* \s* from offset p, greedy: the offset after the run.
SpaceRunEnd(s, p) ==
    LET es == {e \in p..Len(s) : \A j \in p..(e - 1) : IsSpace(At(s, j))}
    IN  IF p > Len(s) THEN p ELSE CHOOSE e \in es : \A f \in es : f <= e

\* redirect_res, lines 78-94: per language the pattern, which differs from
\* redirect_base_pattern in the alternation of the language's words, tried
\* in the order of the word list.
redirect_res == [lang \in DOMAIN redirect_magicwords |-> redirect_magicwords[lang]]

\* The bracketed link that follows word w of the pattern, or NoLink:
\* \A \s* \# w \s* and then the same link, anchor and brackets as <wikilink>.
RedirectAfterWord(s, w) ==
    LET h == SpaceRunEnd(s, 0)
    IN  IF HasAt(s, h, "#") /\ WordAt(s, h + 1, w)
        THEN WikilinkGroupAt(s, SpaceRunEnd(s, h + 1 + Len(w)))
        ELSE NoLink

\* redirect_re.finditer(source): \A lets the pattern match at offset 0 only,
\* so there is at most one match; NoLink: none.
redirect_matches(s, words) ==
    LET is == {i \in 1..Len(words) : RedirectAfterWord(s, words[i]) # NoLink}
    IN  IF is = {} THEN NoLink
        ELSE LET i == CHOOSE x \in is : \A y \in is : x <= y
                 g == RedirectAfterWord(s, words[i])
             IN  [g EXCEPT !.start = 0, !.end = g.wikilink_end]

\* anchor.replace('\n', ' ') of line 108.
NewlinesToSpaces(s) == [k \in 1..Len(s) |-> IF s[k] = NL THEN " " ELSE s[k]]

\* Lines 104-128: the CaptureResult built from match m.
redirect_of(m) ==
    LET target0   == Trim(m.link)
        anchor    == Trim(NewlinesToSpaces(
                         IF m.has_anchor /\ m.anchor # <<>> THEN m.anchor
                         ELSE target0))
        h         == IndexOf(target0, "#")
        target1   == IF h = -1 THEN target0 ELSE Slice(target0, 0, h)
        tosection == IF h = -1 THEN <<>> ELSE Slice(target0, h + 1, Len(target0))
    IN  [target    |-> IF anchor # <<>> /\ target1 = <<>> THEN anchor ELSE target1,
         tosection |-> tosection,
         begin     |-> m.start,
         end       |-> m.end]

\* The languages redirects() is called with: two configured, one not.
Languages == {"en", "it", "xx"}

MagicWordsWritten ==
    {<<"R", "E", "D", "I", "R", "E", "C", "T">>, <<"r", "e", "d", "i", "r", "e", "c", "t">>,
     <<"R", "I", "N", "V", "I", "O">>, <<"T", "A", "M">>}

RedirectSources ==
    {lead \o hash \o word \o gap \o <<"[", "[">> \o t \o <<"]", "]">> \o tail :
        lead \in {<<>>, <<" ">>}, hash \in {<<"#">>, <<>>},
        word \in MagicWordsWritten, gap \in {<<>>, <<" ">>},
        t \in Strs({"a", " ", "#", "|"}, MaxBody), tail \in {<<>>, <<"a">>}}

InitRedirects ==
    /\ ProcessorsIdle
    /\ GuardIdle
    /\ CallerIdle
    /\ WikilinksIdle
    /\ FullBodyIdle
    /\ source \in RedirectSources
    /\ include_preamble = FALSE
    /\ secPc = "done"
    /\ hdrs = <<>>
    /\ secOut = <<>>
    /\ language \in Languages
    /\ rdPc = "idle"
    /\ rdErr = "none"
    /\ rdOut = <<>>

\* Line 97: redirects(source, language) is called.  The function holds a
\* yield, so the call builds a generator and runs no line of the body.
RedirectsCall ==
    /\ rdPc = "idle"
    /\ rdPc' = "created"
    /\ UNCHANGED <<language, rdErr, rdOut>>
    /\ UNCHANGED <<secVars, guardVars, callerVars, wlVars, fbVars, procVars>>

\* The first next(): line 100 looks the language up in redirect_res and
\* finds no entry.
RedirectsKeyError ==
    /\ rdPc = "created"
    /\ language \notin DOMAIN redirect_res
    /\ rdErr' = "KeyError"
    /\ rdPc' = "raised"
    /\ UNCHANGED <<language, rdOut>>
    /\ UNCHANGED <<secVars, guardVars, callerVars, wlVars, fbVars, procVars>>

\* The first next(): lines 100-128, the pattern matches and the Redirect is
\* yielded.
RedirectsYield ==
    /\ rdPc = "created"
    /\ language \in DOMAIN redirect_res
    /\ redirect_matches(source, redirect_res[language]) # NoLink
    /\ rdOut' = Append(rdOut,
                       redirect_of(redirect_matches(source, redirect_res[language])))
    /\ rdPc' = "yielded"
    /\ UNCHANGED <<language, rdErr>>
    /\ UNCHANGED <<secVars, guardVars, callerVars, wlVars, fbVars, procVars>>

\* The loop of line 103 finds no (further) match: the generator is exhausted.
RedirectsStop ==
    /\ \/ rdPc = "yielded"
       \/ /\ rdPc = "created"
          /\ language \in DOMAIN redirect_res
          /\ redirect_matches(source, redirect_res[language]) = NoLink
    /\ rdPc' = "done"
    /\ UNCHANGED <<language, rdErr, rdOut>>
    /\ UNCHANGED <<secVars, guardVars, callerVars, wlVars, fbVars, procVars>>

NextRedirects ==
    \/ RedirectsCall
    \/ RedirectsKeyError
    \/ RedirectsYield
    \/ RedirectsStop

SpecRedirects == InitRedirects /\ [][NextRedirects]_vars

\* ------------------------------------------------------- Section.full_body

\* Line 34: is_preamble.
is_preamble(sec) == sec.level = 0

\* Line 45: ''.join('=' for _ in range(self.level)).
equals(n) == [k \in 1..n |-> "="]

\* Lines 42-50: the value full_body computes.
full_body_of(sec) ==
    IF is_preamble(sec) THEN sec.body
    ELSE equals(sec.level) \o sec.name \o equals(sec.level) \o <<NL>> \o sec.body

\* A cache test by truth value: an empty string counts as not cached.
is_cached_truthy(v) == v # <<>> /\ v[1] # <<>>

\* Line 39: self._full_body is not None.
is_cached(v) == v # <<>>

\* Section(name, level, body), lines 24-29.
SectionObjects ==
    [name : Strs({"a", "="}, MaxText), level : 0..MaxLevel,
     body : Strs({"a", NL}, MaxText)]

InitFullBody ==
    /\ ProcessorsIdle
    /\ GuardIdle
    /\ CallerIdle
    /\ SectionsIdle
    /\ WikilinksIdle
    /\ RedirectsIdle
    /\ self \in SectionObjects
    /\ _full_body = <<>>
    /\ fbReturned = <<>>
    /\ fbComputed = 0

\* Lines 39-40: an access of full_body finds the cache filled and returns it.
FullBodyCached ==
    /\ Len(fbReturned) < MaxReads
    /\ is_cached(_full_body)
    /\ fbReturned' = Append(fbReturned, _full_body[1])
    /\ UNCHANGED <<self, _full_body, fbComputed>>
    /\ UNCHANGED <<secVars, guardVars, callerVars, wlVars, rdVars, procVars>>

\* Lines 39-52: an access of full_body finds no cache, computes the value,
\* stores it and returns it.
FullBodyComputed ==
    /\ Len(fbReturned) < MaxReads
    /\ ~is_cached(_full_body)
    /\ _full_body' = <<full_body_of(self)>>
    /\ fbReturned' = Append(fbReturned, full_body_of(self))
    /\ fbComputed' = fbComputed + 1
    /\ UNCHANGED self
    /\ UNCHANGED <<secVars, guardVars, callerVars, wlVars, rdVars, procVars>>

NextFullBody == FullBodyCached \/ FullBodyComputed

SpecFullBody == InitFullBody /\ [][NextFullBody]_vars

\* --------------------------------------------------------------- processors
\* redirect_extractor.main and revisionlist_extractor.main over a dump.  A
\* page's id is its position in the dump and a revision's id its position in
\* the page; a timestamp is the instant, which the JSON form 'to_json' gives
\* and the sort keys of both processors order alike.  The rows keep the
\* columns the page, the revision and the extraction decide: the title, the
\* user and the minor flag are copied from the dump and left out.

\* The revision texts of the dumps: an empty one and a redirect to the page
\* a.  Neither holds a comment, so remove_comments() returns them unchanged.
RevTexts ==
    {<<>>,
     <<"#", "r", "e", "d", "i", "r", "e", "c", "t", "[", "[", "a", "]", "]">>}

MwRevisions == [timestamp : 1..MaxStamp, text : RevTexts]

RevisionLists(n) == UNION {[1..k -> MwRevisions] : k \in 0..n}

\* The pages of a dump; the pages outside namespace 0, whose revisions are
\* never read, carry at most MaxSkippedRevs of them.
MwPages ==
    [namespace : {0}, revisions : RevisionLists(MaxRevs)]
        \cup [namespace : {1}, revisions : RevisionLists(MaxSkippedRevs)]

Dumps == UNION {[1..n -> MwPages] : n \in 0..MaxPages}

\* The options of extract-revisionlist, lines 144-165.
Options ==
    [language : {"en"}, only_last_revision : BOOLEAN, ensure_sorted : BOOLEAN,
     change_bytes : BOOLEAN]

\* The redirect_target of line 205.
NOREDIRECT == <<"#", "N", "O", "R", "E", "D", "I", "R", "E", "C", "T">>

\* sorted(..., key=...) of redirect_extractor line 166: a stable sort of s by
\* the keys k, k[i] the key of s[i].
StableSort(s, k) ==
    LET n       == Len(s)
        rank(j) == Cardinality({m \in 1..n :
                                   k[m] < k[j] \/ (k[m] = k[j] /\ m < j)}) + 1
    IN  [i \in 1..n |-> s[CHOOSE j \in 1..n : rank(j) = i]]

\* redirect_extractor lines 64-66 and 177: the redirects of a revision's
\* text, as the list main drains them into.
redirect_list_of(text, lang) ==
    LET m == redirect_matches(text, redirect_res[lang])
    IN  IF m = NoLink THEN <<>> ELSE <<redirect_of(m)>>

\* redirect_extractor lines 68-79: the Revision extract_revisions yields for
\* the i-th revision of the page p of the dump.
revision_of(p, i) ==
    [id        |-> i,
     timestamp |-> dump[p].revisions[i].timestamp,
     text      |-> dump[p].revisions[i].text]

\* A flag carried over from the page before.
flag_carried_over(prev) == prev

\* redirect_extractor lines 163-164: both flags start at None on every page.
flag_of_new_page(prev) == "None"

\* redirect_extractor line 203: "if hasredirect_prevrev".
truthy(flag) == flag = "True"

\* The statement after a yield never runs.
resumed_never(pending) == 0

\* The counter statement after the yield (redirect_extractor lines 81 and
\* 109, revisionlist_extractor lines 105 and 135) runs when the generator is
\* resumed: once for a pending yield.
resumed(pending) == IF pending THEN 1 ELSE 0

\* revisionlist_extractor lines 85-90: the bytes of a text of one-byte
\* characters.
nbytes_of(text) == IF text # <<>> THEN Len(text) ELSE 0

\* revisionlist_extractor lines 81-83: the k-th revision of the page of the
\* loop is not skipped.
is_yielded(k) ==
    ~args.only_last_revision \/ k = Len(dump[mw_page].revisions)

\* The list left in the order of the dump.
left_unsorted(l) == l

\* revisionlist_extractor line 264: page_revision_list.sort by revout[4],
\* the timestamp, the third column kept here.
sort_by_timestamp(l) == StableSort(l, [i \in 1..Len(l) |-> l[i][3]])

\* revisionlist_extractor lines 265-275: the change of the i-th row of the
\* sorted list l; prev_nbites is None at the first row only.
change_of(l, i) == IF i = 1 THEN l[i][4] ELSE l[i][4] - l[i - 1][4]

\* revisionlist_extractor lines 266-277: the rows written for the sorted
\* list l.
rows_written(l) ==
    [i \in 1..Len(l) |->
        IF args.change_bytes THEN l[i] \o <<change_of(l, i)>> ELSE l[i]]

\* The pages extract_pages has yet to yield after the first "from" ones.
ArticlesAfter(from) == {k \in (from + 1)..Len(dump) : dump[k].namespace = 0}

\* The revisions extract_revisions has yet to yield after the first "from".
RevisionsAfter(from) ==
    {k \in (from + 1)..Len(dump[mw_page].revisions) : is_yielded(k)}

First(S) == CHOOSE k \in S : \A j \in S : k <= j

InitProcessors ==
    /\ ProcessorsIdle
    /\ GuardIdle
    /\ CallerIdle
    /\ SectionsIdle
    /\ WikilinksIdle
    /\ RedirectsIdle
    /\ FullBodyIdle

\* redirect_extractor lines 133-160: main starts on a dump.
RedirectExtractorStart ==
    /\ mainPc = "idle"
    /\ processor' = "redirect_extractor"
    /\ dump' \in Dumps
    /\ argv' = NoArgs
    /\ args' = NoArgs
    /\ stats' = [pages_analyzed |-> 0, revisions_analyzed |-> 0]
    /\ rows' = <<>>
    /\ mainPc' = "pages"
    /\ UNCHANGED <<dumpPos, pagePending, mw_page, revPos, revPending,
                   sorted_revisions, revIdx, hasredirect_rev,
                   hasredirect_prevrev, page_revision_list>>
    /\ UNCHANGED <<secVars, guardVars, callerVars, wlVars, rdVars, fbVars>>

\* revisionlist_extractor lines 175-202: main starts on a dump;
\* --change-bytes sets ensure_sorted (lines 195-196).
RevisionListStart ==
    /\ mainPc = "idle"
    /\ processor' = "revisionlist_extractor"
    /\ dump' \in Dumps
    /\ argv' \in Options
    /\ args' = [argv' EXCEPT
                   !.ensure_sorted = argv'.ensure_sorted \/ argv'.change_bytes]
    /\ stats' = [pages_analyzed |-> 0, revisions_analyzed |-> 0]
    /\ rows' = <<>>
    /\ mainPc' = "pages"
    /\ UNCHANGED <<dumpPos, pagePending, mw_page, revPos, revPending,
                   sorted_revisions, revIdx, hasredirect_rev,
                   hasredirect_prevrev, page_revision_list>>
    /\ UNCHANGED <<secVars, guardVars, callerVars, wlVars, rdVars, fbVars>>

\* The for loop of main asks extract_pages for a page and gets one
\* (redirect_extractor lines 89-109 and 162-164, revisionlist_extractor
\* lines 114-135 and 204-205): the generator, resumed, counts the page it
\* had yielded, skips the pages outside namespace 0 and yields the next.
PagesYield ==
    /\ mainPc = "pages"
    /\ ArticlesAfter(dumpPos) # {}
    /\ dumpPos' = First(ArticlesAfter(dumpPos))
    /\ mw_page' = First(ArticlesAfter(dumpPos))
    /\ stats' = [stats EXCEPT !.pages_analyzed = @ + resumed(pagePending)]
    /\ pagePending' = TRUE
    /\ revPos' = 0
    /\ revPending' = FALSE
    /\ sorted_revisions' = <<>>
    /\ revIdx' = 0
    /\ hasredirect_rev' = flag_of_new_page(hasredirect_rev)
    /\ hasredirect_prevrev' = flag_of_new_page(hasredirect_prevrev)
    /\ page_revision_list' = <<>>
    /\ mainPc' = "revisions"
    /\ UNCHANGED <<processor, dump, argv, args, rows>>
    /\ UNCHANGED <<secVars, guardVars, callerVars, wlVars, rdVars, fbVars>>

\* The for loop of main asks extract_pages for a page and the dump has no
\* further page of namespace 0: the generator counts the page it had
\* yielded and ends, and main returns (redirect_extractor lines 220-227,
\* revisionlist_extractor lines 279-286).
PagesStop ==
    /\ mainPc = "pages"
    /\ ArticlesAfter(dumpPos) = {}
    /\ dumpPos' = Len(dump)
    /\ stats' = [stats EXCEPT !.pages_analyzed = @ + resumed(pagePending)]
    /\ pagePending' = FALSE
    /\ mainPc' = "returned"
    /\ UNCHANGED <<processor, dump, argv, args, mw_page, revPos, revPending,
                   sorted_revisions, revIdx, hasredirect_rev,
                   hasredirect_prevrev, page_revision_list, rows>>
    /\ UNCHANGED <<secVars, guardVars, callerVars, wlVars, rdVars, fbVars>>

\* redirect_extractor line 166: sorted() drains extract_revisions, which
\* is resumed after each of its yields, and orders the revisions by
\* timestamp.
RevisionsSorted ==
    /\ processor = "redirect_extractor"
    /\ mainPc = "revisions"
    /\ LET n == Len(dump[mw_page].revisions)
       IN  /\ sorted_revisions' =
                 StableSort([i \in 1..n |-> revision_of(mw_page, i)],
                            [i \in 1..n |-> revision_of(mw_page, i).timestamp])
           /\ stats' = [stats EXCEPT
                           !.revisions_analyzed = @ + n * resumed(TRUE)]
           /\ revPos' = n
    /\ revPending' = FALSE
    /\ revIdx' = 0
    /\ mainPc' = "rows"
    /\ UNCHANGED <<processor, dump, argv, args, dumpPos, pagePending, mw_page,
                   hasredirect_rev, hasredirect_prevrev, page_revision_list,
                   rows>>
    /\ UNCHANGED <<secVars, guardVars, callerVars, wlVars, rdVars, fbVars>>

\* redirect_extractor lines 168-218: the body of the loop for the next
\* revision of the sorted list.
RevisionRows ==
    /\ processor = "redirect_extractor"
    /\ mainPc = "rows"
    /\ revIdx < Len(sorted_revisions)
    /\ LET revision      == sorted_revisions[revIdx + 1]
           redirect_list == redirect_list_of(revision.text, args.language)
           row(target, tosection) ==
               <<mw_page, revision.id, revision.timestamp, target, tosection>>
       IN  IF Len(redirect_list) > 0
           THEN /\ hasredirect_rev' = "True"
                /\ hasredirect_prevrev' = "True"
                /\ rows' = rows \o
                       [i \in 1..Len(redirect_list) |->
                           row(redirect_list[i].target,
                               redirect_list[i].tosection)]
           ELSE /\ hasredirect_rev' = "False"
                /\ hasredirect_prevrev' = "False"
                /\ rows' = IF truthy(hasredirect_prevrev)
                           THEN Append(rows, row(NOREDIRECT, <<>>))
                           ELSE rows
    /\ revIdx' = revIdx + 1
    /\ UNCHANGED <<processor, dump, argv, args, mainPc, dumpPos, pagePending,
                   mw_page, revPos, revPending, sorted_revisions,
                   page_revision_list, stats>>
    /\ UNCHANGED <<secVars, guardVars, callerVars, wlVars, rdVars, fbVars>>

\* redirect_extractor line 166: the sorted list is exhausted.
RevisionsDone ==
    /\ processor = "redirect_extractor"
    /\ mainPc = "rows"
    /\ revIdx = Len(sorted_revisions)
    /\ mainPc' = "pages"
    /\ UNCHANGED <<processor, dump, argv, args, dumpPos, pagePending, mw_page,
                   revPos, revPending, sorted_revisions, revIdx,
                   hasredirect_rev, hasredirect_prevrev, page_revision_list,
                   stats, rows>>
    /\ UNCHANGED <<secVars, guardVars, callerVars, wlVars, rdVars, fbVars>>

\* revisionlist_extractor lines 78-105 and 207-249: the loop of main asks
\* extract_revisions for a revision and gets one; the generator, resumed,
\* counts the revision it had yielded, skips what --only-last-revision
\* excludes and yields the next, which main keeps for sorting or writes.
RevisionYield ==
    /\ processor = "revisionlist_extractor"
    /\ mainPc = "revisions"
    /\ RevisionsAfter(revPos) # {}
    /\ LET k      == First(RevisionsAfter(revPos))
           revout == <<mw_page, k, dump[mw_page].revisions[k].timestamp,
                       nbytes_of(dump[mw_page].revisions[k].text)>>
       IN  /\ revPos' = k
           /\ IF args.ensure_sorted \/ args.change_bytes
              THEN /\ page_revision_list' = Append(page_revision_list, revout)
                   /\ rows' = rows
              ELSE /\ page_revision_list' = page_revision_list
                   /\ rows' = Append(rows, revout)
    /\ stats' = [stats EXCEPT
                    !.revisions_analyzed = @ + resumed(revPending)]
    /\ revPending' = TRUE
    /\ UNCHANGED <<processor, dump, argv, args, mainPc, dumpPos, pagePending,
                   mw_page, sorted_revisions, revIdx, hasredirect_rev,
                   hasredirect_prevrev>>
    /\ UNCHANGED <<secVars, guardVars, callerVars, wlVars, rdVars, fbVars>>

\* revisionlist_extractor lines 78 and 251-277: extract_revisions counts
\* the revision it had yielded and ends; main sorts the rows it kept and
\* writes them.
RevisionsStop ==
    /\ processor = "revisionlist_extractor"
    /\ mainPc = "revisions"
    /\ RevisionsAfter(revPos) = {}
    /\ revPos' = Len(dump[mw_page].revisions)
    /\ stats' = [stats EXCEPT
                    !.revisions_analyzed = @ + resumed(revPending)]
    /\ revPending' = FALSE
    /\ page_revision_list' = sort_by_timestamp(page_revision_list)
    /\ rows' = rows \o rows_written(sort_by_timestamp(page_revision_list))
    /\ mainPc' = "pages"
    /\ UNCHANGED <<processor, dump, argv, args, dumpPos, pagePending, mw_page,
                   sorted_revisions, revIdx, hasredirect_rev,
                   hasredirect_prevrev>>
    /\ UNCHANGED <<secVars, guardVars, callerVars, wlVars, rdVars, fbVars>>

NextProcessors ==
    \/ RedirectExtractorStart
    \/ RevisionListStart
    \/ PagesYield
    \/ PagesStop
    \/ RevisionsSorted
    \/ RevisionRows
    \/ RevisionsDone
    \/ RevisionYield
    \/ RevisionsStop

SpecProcessors == InitProcessors /\ [][NextProcessors]_vars

\* ================================================================== claims

SectionsDone == secPc = "done" /\ include_preamble

Covered(r) == {k \in 0..(Len(source) - 1) : r.begin <= k /\ k < r.end}

C2_PreambleSpan ==
    (include_preamble /\ secOut # <<>>) =>
        LET all == section_header_matches(source)
            pre == secOut[1]
        IN  /\ pre.level = 0
            /\ pre.name = <<>>
            /\ pre.begin = 0
            /\ all # <<>> =>
                  /\ pre.end = all[1].start
                  /\ pre.body = SubSeq(source, 1, all[1].start)
            /\ all = <<>> =>
                  /\ pre.end = Len(source)
                  /\ pre.body = source
                  /\ Len(secOut) = 1

\* C3: a call whose operation is still running when its deadline has elapsed
\* raises CallTimeout as its next step, and no call that returns has run to
\* its deadline; once CallTimeout is raised no alarm is pending; and a call
\* that follows a timed-out call is interrupted only after its own alarm was
\* armed and its own timeout has elapsed.
C3_TimeoutRaisedAlarmCleared ==
    /\ [][(wtPc = "running" /\ elapsed >= wtTimeout) =>
             (wtPc' = "raised" /\ wtErr' = "CallTimeout")]_vars
    /\ [](wtPc \in {"return", "returned"} => elapsed < wtTimeout)
    /\ []((wtPc = "raised" /\ wtErr = "CallTimeout") => alarm = -1)
    /\ []((prevErr = "CallTimeout" /\ wtPc = "raised" /\ wtErr = "CallTimeout") =>
             (wtArmed /\ elapsed >= wtTimeout))

\* A call timed out right after a call that timed out.
C3_Witness ==
    /\ prevErr = "CallTimeout"
    /\ wtPc = "raised"
    /\ wtErr = "CallTimeout"
    /\ ~opDone

\* C4: a call that returns hands back the operation's result with the alarm
\* disarmed, and CallTimeout is raised only when the operation had not
\* completed.
C4_CompletedResultKept ==
    /\ wtPc = "returned" => (res = opValue /\ alarm = -1)
    /\ (wtPc = "raised" /\ wtErr = "CallTimeout") => ~opDone

\* C5: while wikilinks runs with debug=True at most one wrap_timeout
\* evaluation is in flight: the timer is armed only inside the one call in
\* flight, that call was started by wikilinks itself and not from inside
\* another guarded call, and it has returned or raised before wikilinks goes on.
C5_OneGuardedCallInFlight ==
    /\ wtDepth <= 1
    /\ InWrap <=> wtDepth = 1
    /\ alarm >= 0 => InWrap
    /\ InWrap => (debug /\ wlPc = "guard")
    /\ wlPc \in {"limits", "loop", "done", "raised"} => (wtDepth = 0 /\ alarm = -1)

\* In a second run of wikilinks its guarded call is running, timer armed.
C5_Witness ==
    /\ runs = 2
    /\ debug
    /\ wlPc = "guard"
    /\ wtPc = "running"
    /\ alarm > 0

\* C6: when the deadline fires during a guarded evaluation of wikilinks, the
\* run ends by raising the timeout error to its caller, not another error and
\* not in the debugger.
C6_TimeoutReportedToCaller ==
    (debug /\ wtErr = "CallTimeout" /\ wlPc \in {"raised", "debugger"}) =>
        (wlPc = "raised" /\ wlErr = "CallTimeout")

\* The run of wikilinks is over: exhausted, or ended by an error.
RunOver == wlPc \in {"done", "raised"}

Candidates == wikilink_simple_matches(source)

\* The window of candidate c: from just after the nearest whitespace before
\* it (the start of the text if none) to the nearest whitespace after it (the
\* end of the text if none).
WindowBegin(c) ==
    LET p == space_rtl_search(Slice(source, 0, c.start))
    IN  IF p = -1 THEN 0 ELSE p + 1

WindowEnd(c) ==
    LET p == space_search(Slice(source, c.end, Len(source)))
    IN  IF p = -1 THEN Len(source) ELSE c.end + p

\* What the link grammar matches in the window of candidate c.
Grammar(c) == wikilink_re_search(Slice(source, WindowBegin(c), WindowEnd(c)))

\* The link and tosection C7 describes for link text x on page title.
ClaimedLink(x, title) ==
    LET y == Trim(x)
        h == IndexOf(y, "#")
    IN  IF h = -1 THEN [link |-> y, tosection |-> <<>>]
        ELSE [link |-> IF h = 0 THEN title ELSE Slice(y, 0, h),
              tosection |-> Slice(y, h + 1, Len(y))]

\* s with every newline a space, whitespace runs collapsed, trimmed.
RECURSIVE Collapsed(_)
Collapsed(s) ==
    IF s = <<>> THEN <<>>
    ELSE IF ~IsSpace(Head(s)) THEN <<Head(s)>> \o Collapsed(Tail(s))
    ELSE IF Tail(s) # <<>> /\ IsSpace(Head(Tail(s))) THEN Collapsed(Tail(s))
    ELSE <<" ">> \o Collapsed(Tail(s))

\* The anchor C8 describes for grammar match m.
ClaimedAnchor(m, title) ==
    Collapsed(Trim(IF m.has_anchor /\ m.anchor # <<>> THEN m.anchor
                   ELSE ClaimedLink(m.link, title).link))

\* s without the characters c at its two ends.
StripChar(s, c) ==
    LET ks == {k \in 1..Len(s) : s[k] # c}
    IN  IF ks = {} THEN <<>>
        ELSE SubSeq(s, CHOOSE a \in ks : \A b \in ks : a <= b,
                       CHOOSE a \in ks : \A b \in ks : b <= a)

\* The affix text of grammar match m in window w, brackets stripped.
ClaimedPrefix(w, m) == StripChar(Slice(w, m.total_start, m.wikilink_start), "[")

ClaimedSuffix(w, m) == StripChar(Slice(w, m.wikilink_end, m.total_end), "]")

HasAffix(m) == m.total_start < m.wikilink_start \/ m.wikilink_end < m.total_end

\* The candidates the grammar matches and resolves to a link that is not empty.
Resolved(c) ==
    /\ Grammar(c) # NoLink
    /\ ClaimedLink(Grammar(c).link, page_title).link # <<>>

\* C7: for every candidate the grammar matches, wikilinks gives the link and
\* tosection obtained by trimming the link text and splitting it once at the
\* first "#", an empty page part replaced by the page title.
C7_LinkAndSectionGiven ==
    RunOver =>
        \A k \in 1..Len(Candidates) :
            Resolved(Candidates[k]) =>
                \E i \in 1..Len(wlOut) :
                    /\ wlOut[i].link =
                          ClaimedLink(Grammar(Candidates[k]).link, page_title).link
                    /\ wlOut[i].tosection =
                          ClaimedLink(Grammar(Candidates[k]).link, page_title).tosection

\* C8: the Wikilink emitted for a candidate without affix text has as anchor
\* the explicit anchor group when present and not empty, otherwise the link
\* after the "#" split, newlines turned into spaces, whitespace collapsed,
\* trimmed.
C8_AnchorGiven ==
    RunOver =>
        \A k \in 1..Len(Candidates) :
            (Resolved(Candidates[k]) /\ ~HasAffix(Grammar(Candidates[k]))) =>
                \E i \in 1..Len(wlOut) :
                    /\ wlOut[i].link =
                          ClaimedLink(Grammar(Candidates[k]).link, page_title).link
                    /\ wlOut[i].anchor =
                          ClaimedAnchor(Grammar(Candidates[k]), page_title)

\* C9: the Wikilink emitted for a candidate with affix text has as anchor
\* prefix + anchor + suffix, and its span covers the affix.
C9_AffixJoinedToAnchor ==
    RunOver =>
        \A k \in 1..Len(Candidates) :
            LET c == Candidates[k]
                w == Slice(source, WindowBegin(c), WindowEnd(c))
                m == Grammar(c)
            IN  (Resolved(c) /\ HasAffix(m)) =>
                    \E i \in 1..Len(wlOut) :
                        /\ wlOut[i].anchor =
                              ClaimedPrefix(w, m) \o ClaimedAnchor(m, page_title)
                                  \o ClaimedSuffix(w, m)
                        /\ wlOut[i].begin = WindowBegin(c) + m.total_start
                        /\ wlOut[i].end = WindowBegin(c) + m.total_end

C11_WindowAroundCandidate ==
    (RunOver /\ wlLine # 345) =>
        \A k \in 1..Len(Candidates) :
            /\ wlErr = "none"
            /\ k = Len(Candidates) =>
                  space_prev_pos = WindowBegin(Candidates[k])

\* The source offset at which the group total of candidate c begins.
TotalStart(c) == WindowBegin(c) + Grammar(c).total_start

\* The sections of the list given to wikilinks that offset t lies inside.
SectionsAround(t) ==
    {k \in 1..Len(sections_limits) :
        sections_limits[k].begin <= t /\ t <= sections_limits[k].end}

\* The section number C12 attributes to offset t: 0 before the first header.
ClaimedSectionNumber(t) ==
    IF SectionsAround(t) = {} THEN 0
    ELSE CHOOSE k \in SectionsAround(t) : \A j \in SectionsAround(t) : k <= j

\* C12: for every candidate the grammar resolves, wikilinks gives a link
\* attributed to section 0 (level 0) when its total start precedes the first
\* header, and to section k, with the name and level of section k, when its
\* total start lies inside section k.
C12_AttributedToOwnSection ==
    (RunOver /\ wlLine # 345) =>
        \A n \in 1..Len(Candidates) :
            LET c == Candidates[n]
                k == ClaimedSectionNumber(TotalStart(c))
            IN  Resolved(c) =>
                    \E i \in 1..Len(wlOut) :
                        /\ wlOut[i].begin = TotalStart(c)
                        /\ wlOut[i].section_number = k
                        /\ k = 0 => wlOut[i].section_level = 0
                        /\ k > 0 =>
                              /\ wlOut[i].section_name = sections_limits[k].name
                              /\ wlOut[i].section_level = sections_limits[k].level

\* The text between the brackets of candidate c.
BracketContents(c) == Slice(source, c.start + 2, c.end - 2)

\* The contents of candidate c hold one of | < > { }.
HasNestingChar(c) ==
    \E k \in 1..Len(BracketContents(c)) :
        BracketContents(c)[k] \in {"|", "<", ">", "{", "}"}

\* C13: when the grammar matches nothing in the window of a candidate, the
\* candidate is skipped without error if its contents hold one of | < > { },
\* and the mismatch is reported to the caller as a grammar fault otherwise.
C13_MismatchSkippedOrSurfaced ==
    (RunOver /\ wlLine # 345) =>
        \A n \in 1..Len(Candidates) :
            Grammar(Candidates[n]) = NoLink =>
                IF HasNestingChar(Candidates[n])
                THEN wlPc = "done" /\ wlErr = "none"
                ELSE wlErr = "UnanticipatedGrammarFault"

\* The link and the anchor of candidate c are both empty after resolution.
BothEmpty(c) ==
    /\ ClaimedLink(Grammar(c).link, page_title).link = <<>>
    /\ ClaimedAnchor(Grammar(c), page_title) = <<>>

LinkTextStart(w) ==
    LET h == SpaceRunEnd(source, 0)
        b == SpaceRunEnd(source, h + 1 + Len(w))
    IN  IF /\ HasAt(source, h, "#")
           /\ h + 1 + Len(w) <= Len(source)
           /\ SubSeq(source, h + 2, h + 1 + Len(w)) = w
           /\ HasAt(source, b, "[") /\ HasAt(source, b + 1, "[")
        THEN b + 2 ELSE -1

\* The link texts T of C16: source begins with "#", a magic word of the
\* language and [[T]], T a text of characters that are legal in a link.
LinkTexts ==
    IF language \notin DOMAIN redirect_magicwords THEN {}
    ELSE {Slice(source, LinkTextStart(redirect_magicwords[language][i]), k) :
            <<i, k>> \in
              {x \in (1..Len(redirect_magicwords[language])) \X (0..Len(source)) :
                 LET b == LinkTextStart(redirect_magicwords[language][x[1]])
                 IN  /\ b # -1
                     /\ b <= x[2]
                     /\ HasAt(source, x[2], "]") /\ HasAt(source, x[2] + 1, "]")
                     /\ \A j \in b..(x[2] - 1) : IsLinkChar(At(source, j))}}

\* The target and tosection C16 gives for link text t.
ClaimedRedirect(t) ==
    LET y == Trim(t)
        h == IndexOf(y, "#")
    IN  [target    |-> IF h = -1 THEN y ELSE Slice(y, 0, h),
         tosection |-> IF h = -1 THEN <<>> ELSE Slice(y, h + 1, Len(y))]

\* C16: for a configured language, a source that begins with "#", a magic
\* word of the language and [[T]] yields exactly one Redirect, its target the
\* page part of the trimmed T and its tosection the text after the first "#"
\* of T, empty when T holds none.
C16_RedirectOfMagicWordLink ==
    rdPc \in {"yielded", "done"} =>
        \A t \in LinkTexts :
            /\ Len(rdOut) = 1
            /\ rdOut[1].target = ClaimedRedirect(t).target
            /\ rdOut[1].tosection = ClaimedRedirect(t).tosection

\* C17: for a language without a magic-word table the call of redirects
\* itself fails: once the call is made an error has been raised, whether or
\* not the caller iterates the result, and no Redirect is ever emitted.
C17_UnsupportedLanguageFailsAtCall ==
    (language \notin DOMAIN redirect_magicwords /\ rdPc # "idle") =>
        /\ rdPc = "raised"
        /\ rdErr # "none"
        /\ rdOut = <<>>

\* C18: every access of full_body returns, for a Section of level n >= 1,
\* n "=" characters, the name, n "=" characters, a newline and the body, and
\* for a preamble the body; every access returns what the first returned, and
\* the value is computed at most once.
C18_FullBodyWrapsAndIsStable ==
    /\ \A i \in 1..Len(fbReturned) :
          /\ self.level >= 1 =>
                fbReturned[i] = [k \in 1..self.level |-> "="] \o self.name
                                  \o [k \in 1..self.level |-> "="] \o <<NL>>
                                  \o self.body
          /\ self.level = 0 => fbReturned[i] = self.body
          /\ fbReturned[i] = fbReturned[1]
    /\ fbComputed <= 1
    /\ fbReturned # <<>> => fbComputed = 1

\* full_body of a section with a header has been accessed three times.
C18_Witness ==
    /\ Len(fbReturned) = 3
    /\ self.level >= 1
    /\ self.name # <<>>
    /\ self.body # <<>>

\* The number of candidates the loop of line 363 has taken.
TakenCount == Len(Candidates) - Len(simple_matches)

C20_NoAlarmOutsideGuardedCall ==
    /\ ~InWrap => alarm = -1
    /\ ~stray

\* C21: with debug=False a run of wikilinks ends exhausted, never by an
\* error: every candidate has been taken, each ending in a link or a skip,
\* whether or not a whitespace precedes it.
C21_RunEndsWithoutError ==
    (~debug /\ RunOver) =>
        /\ wlPc = "done"
        /\ wlErr = "none"
        /\ simple_matches = <<>>

\* C22: no emitted Redirect has a "#" in its target; when the link text holds
\* a "#" the target is the text before the first one and tosection the text
\* after it, the form [[#Sec]] with an empty page part included.
C22_TargetWithoutFragment ==
    /\ \A i \in 1..Len(rdOut) : IndexOf(rdOut[i].target, "#") = -1
    /\ rdPc \in {"yielded", "done"} =>
          \A t \in LinkTexts :
              IndexOf(t, "#") # -1 =>
                  /\ rdOut # <<>>
                  /\ rdOut[1].target = Slice(Trim(t), 0, IndexOf(Trim(t), "#"))
                  /\ rdOut[1].tosection =
                        Slice(Trim(t), IndexOf(Trim(t), "#") + 1, Len(Trim(t)))

\* The revisions of page p by timestamp, revisions of one timestamp in the
\* order of the dump: the order main handles them in.
Order(p) ==
    LET n == Len(dump[p].revisions)
    IN  StableSort([i \in 1..n |-> i],
                   [i \in 1..n |-> dump[p].revisions[i].timestamp])

\* The number of redirects of revision i of page p.
RedirectsIn(p, i) ==
    Len(redirect_list_of(dump[p].revisions[i].text, args.language))

\* The rows written for revision i of page p.
RowsOf(p, i) == {k \in 1..Len(rows) : rows[k][1] = p /\ rows[k][2] = i}

IsNoRedirectRow(r) == r[4] = NOREDIRECT /\ r[5] = <<>>

RedirectExtractorReturned ==
    processor = "redirect_extractor" /\ mainPc = "returned"

\* C23: when redirect_extractor.main has returned, for every page of
\* namespace 0 with its revisions in timestamp order, a revision with
\* n >= 1 redirects has exactly n rows and none of them is '#NOREDIRECT'; a
\* revision with no redirect has exactly one row, a '#NOREDIRECT' one, when
\* the revision just before it in the same page had a redirect, and no row
\* otherwise (the first revision of a page included, whatever the page
\* before ended with).
C23_RowsPerRevision ==
    RedirectExtractorReturned =>
        \A p \in 1..Len(dump) :
            dump[p].namespace = 0 =>
                \A j \in 1..Len(Order(p)) :
                    LET n == RedirectsIn(p, Order(p)[j])
                        R == RowsOf(p, Order(p)[j])
                    IN  IF n >= 1
                        THEN /\ Cardinality(R) = n
                             /\ \A k \in R : ~IsNoRedirectRow(rows[k])
                        ELSE IF j > 1 /\ RedirectsIn(p, Order(p)[j - 1]) >= 1
                             THEN /\ Cardinality(R) = 1
                                  /\ \A k \in R : IsNoRedirectRow(rows[k])
                             ELSE R = {}

\* A run over two pages of namespace 0: the first has three revisions, a
\* '#NOREDIRECT' row, and ends with a redirect; the second starts with a
\* revision without one.
C23_Witness ==
    /\ RedirectExtractorReturned
    /\ Len(dump) = 2
    /\ dump[1].namespace = 0
    /\ dump[2].namespace = 0
    /\ Len(dump[1].revisions) = 3
    /\ Len(dump[2].revisions) >= 1
    /\ \E k \in 1..Len(rows) : rows[k][1] = 1 /\ IsNoRedirectRow(rows[k])
    /\ RedirectsIn(1, Order(1)[3]) = 1
    /\ RedirectsIn(2, Order(2)[1]) = 0

\* The revisions extract_revisions yields for page p.
YieldedOf(p) ==
    IF processor = "revisionlist_extractor" /\ args.only_last_revision
    THEN IF dump[p].revisions = <<>> THEN 0 ELSE 1
    ELSE Len(dump[p].revisions)

RECURSIVE YieldedUpTo(_)
\* The revisions yielded for the pages of namespace 0 among the first n.
YieldedUpTo(n) ==
    IF n = 0 THEN 0
    ELSE YieldedUpTo(n - 1) + (IF dump[n].namespace = 0 THEN YieldedOf(n) ELSE 0)

\* C24: when main of either processor has returned, pages_analyzed is the
\* number of pages of namespace 0 in the dump, revisions_analyzed the number
\* of revisions yielded for those pages, and no row belongs to a page of
\* another namespace.
C24_CountersAtReturn ==
    mainPc = "returned" =>
        /\ stats.pages_analyzed =
               Cardinality({p \in 1..Len(dump) : dump[p].namespace = 0})
        /\ stats.revisions_analyzed = YieldedUpTo(Len(dump))
        /\ \A k \in 1..Len(rows) : dump[rows[k][1]].namespace = 0

\* A returned run over a skipped page that has a revision, followed by a
\* page of namespace 0 with two revisions or more, all of them counted.
C24_Witness ==
    /\ mainPc = "returned"
    /\ processor = "revisionlist_extractor"
    /\ Len(dump) = 2
    /\ dump[1].namespace = 1
    /\ dump[1].revisions # <<>>
    /\ dump[2].namespace = 0
    /\ Len(dump[2].revisions) >= 2
    /\ stats.pages_analyzed = 1
    /\ stats.revisions_analyzed = Len(dump[2].revisions)

\* C25: with --change-bytes the rows of a page are written together, in
\* non-decreasing timestamp order; each row carries the bytes of its
\* revision; the change_bytes of a page's first row is its bytes and that of
\* every later row its bytes minus the bytes of the row written just before.
C25_ChangeBytesRows ==
    (processor = "revisionlist_extractor" /\ argv.change_bytes) =>
        /\ \A j, k, l \in 1..Len(rows) :
               (j < k /\ k < l /\ rows[j][1] = rows[l][1]) =>
                   rows[k][1] = rows[j][1]
        /\ \A k \in 1..Len(rows) :
               /\ Len(rows[k]) = 5
               /\ rows[k][4] =
                      Len(dump[rows[k][1]].revisions[rows[k][2]].text)
               /\ IF k > 1 /\ rows[k - 1][1] = rows[k][1]
                  THEN /\ rows[k - 1][3] <= rows[k][3]
                       /\ rows[k][5] = rows[k][4] - rows[k - 1][4]
                  ELSE rows[k][5] = rows[k][4]

\* A returned run with --change-bytes and without --ensure-sorted over two
\* pages of namespace 0, the first with its revisions out of timestamp
\* order and of different sizes, every revision written.
C25_Witness ==
    /\ processor = "revisionlist_extractor"
    /\ mainPc = "returned"
    /\ argv.change_bytes
    /\ ~argv.ensure_sorted
    /\ ~argv.only_last_revision
    /\ Len(dump) = 2
    /\ dump[1].namespace = 0
    /\ dump[2].namespace = 0
    /\ Len(dump[1].revisions) >= 2
    /\ dump[1].revisions[1].timestamp > dump[1].revisions[2].timestamp
    /\ dump[1].revisions[1].text # dump[1].revisions[2].text
    /\ dump[2].revisions # <<>>
    /\ dump[2].revisions[1].text # <<>>
    /\ Len(rows) = Len(dump[1].revisions) + Len(dump[2].revisions)

====
